---- MODULE Spec2Model ----
(***************************************************************************)
(* Model of scripts/nats-tools/publish.py: the orchestrator (main), the    *)
(* five publisher loops, the stats reporter, the stop event and the        *)
(* lock-guarded Stats record.                                              *)
(*                                                                         *)
(* A step of main, of a publisher or of the reporter is one resumption of  *)
(* its coroutine: it runs from one await to the next.  Stats.increment is  *)
(* split further, between getattr and setattr, so that the lock is what    *)
(* keeps a read-modify-write whole.  The broker (connect, publish,         *)
(* request, put, add_stream, create_key_value, ...) is the environment:    *)
(* each awaited call returns or raises, chosen nondeterministically.       *)
(***************************************************************************)
EXTENDS Integers, Sequences, FiniteSets, TLC

\* ---------------------------------------------------------------- bounds
\* Largest total number of publishers a checked configuration asks for.
MaxPublishers == 2
\* Largest sequence number a publisher reaches (send attempts per task).
MaxSequence == 2
\* Largest number of periodic report lines the reporter prints.
MaxReports == 2
\* Largest wall-clock reading, in seconds, that rate() is checked under.
MaxTime == 2

\* ------------------------------------------------------------- constants
Kinds == <<"normal", "js", "reqrep", "kv", "obj">>
KindSet == {Kinds[i] : i \in 1..Len(Kinds)}

\* One task per (kind, publisher_id); publisher_id ranges over range(n).
TaskIds == KindSet \X (0..(MaxPublishers - 1))
NoTask == <<"none", 0>>

SentName(k) ==
    CASE k = "normal" -> "normal_sent"
      [] k = "js"     -> "js_sent"
      [] k = "reqrep" -> "reqrep_sent"
      [] k = "kv"     -> "kv_sent"
      [] k = "obj"    -> "obj_sent"

ErrorsName(k) ==
    CASE k = "normal" -> "normal_errors"
      [] k = "js"     -> "js_errors"
      [] k = "reqrep" -> "reqrep_errors"
      [] k = "kv"     -> "kv_errors"
      [] k = "obj"    -> "obj_errors"

StatNames == {SentName(k) : k \in KindSet} \cup {ErrorsName(k) : k \in KindSet}

\* The fields of Stats: the ten counters and start_time.
StatFields == StatNames \cup {"start_time"}

\* Wall-clock readings of time.time(), in seconds.
Times == 0..MaxTime

\* The configurations explored: a count per kind and a stats interval.
Configs ==
    { c \in [publishers : [KindSet -> 0..MaxPublishers],
             stats_interval_sec : (-1)..1] :
        c.publishers["normal"] + c.publishers["js"] + c.publishers["reqrep"]
          + c.publishers["kv"] + c.publishers["obj"] <= MaxPublishers }

VARIABLES
    config,        \* Config, fixed before main starts
    main_pc,       \* where main() is
    stop_event,    \* asyncio.Event: set or not
    handlers,      \* signal handlers installed
    stats_created, \* Stats() constructed
    stats,         \* the ten counters of Stats
    lock,          \* Stats._lock: the task holding it, or NoTask
    waiters,       \* Stats._lock: the tasks queued in acquire(), first come first
    pc,            \* per publisher task: where its coroutine is
    sequence,      \* per publisher task: local `sequence`
    stat_name,     \* per publisher task: argument of the pending increment
    current,       \* per publisher task: local `current` of increment
    reporter_pc,   \* where stats_reporter is
    report_lines,  \* number of periodic "Stats:" lines printed
    reports,       \* the periodic "Stats:" lines printed, in order
    summaries,     \* the final summaries printed, in order
    sends_ok,      \* history: per kind, send operations that returned
    sends_failed,  \* history: per kind, send operations that raised
    provisioned,   \* history: per kind, outcome of its provisioning call
    now,           \* what time.time() returns
    rate_result    \* the calls of Stats.rate() made so far, with their results

vars == <<config, main_pc, stop_event, handlers, stats_created, stats, lock, waiters,
          pc,
          sequence, stat_name, current, reporter_pc, report_lines, reports, summaries,
          sends_ok, sends_failed, provisioned, now, rate_result>>

main_vars == <<main_pc, handlers, stats_created, summaries, provisioned>>
task_vars == <<pc, sequence, stat_name, current, lock, waiters, stats, sends_ok,
              sends_failed>>
reporter_vars == <<reporter_pc, report_lines, reports>>

\* ---------------------------------------------------------------- Stats
\* Stats(): every counter 0, start_time = time.time().
NewStats(time) == [n \in StatFields |-> IF n = "start_time" THEN time ELSE 0]

total_sent_without_obj(s) ==
    s["normal_sent"] + s["js_sent"] + s["reqrep_sent"] + s["kv_sent"]

total_sent(s) ==
    s["normal_sent"] + s["js_sent"] + s["reqrep_sent"] + s["kv_sent"] + s["obj_sent"]

total_errors(s) ==
    s["normal_errors"] + s["js_errors"] + s["reqrep_errors"] + s["kv_errors"]
      + s["obj_errors"]

\* rate(): a quotient is kept exact, as numerator and denominator; 0.0 is 0/1.
Quotient(n, d) == [num |-> n, den |-> d]

rate_nonnegative_elapsed(s, time) ==
    LET elapsed == time - s["start_time"]
    IN  IF elapsed >= 0 THEN Quotient(total_sent(s), elapsed) ELSE Quotient(0, 1)

rate(s, time) ==
    LET elapsed == time - s["start_time"]
    IN  IF elapsed > 0 THEN Quotient(total_sent(s), elapsed) ELSE Quotient(0, 1)

\* `async with self._lock` may enter only when nobody holds the lock.
LockAvailableNoExclusion(l) == TRUE
LockAvailable(l) == l = NoTask

\* setattr(self, stat_name, current + amount), amount = 1
Incremented(s, name, cur) == [s EXCEPT ![name] = cur + 1]

\* ------------------------------------------------------ publisher loops
\* `while not stop_event.is_set()`
LoopAlways(is_set) == TRUE
LoopContinues(is_set) == ~is_set

\* The counter a finished send attempt is charged to: K_sent after the
\* awaited operation returned, K_errors in every except branch.
CounterAlwaysSent(k, ok) == SentName(k)
CounterOfNormal(k, ok) == IF ok THEN "normal_sent" ELSE "normal_errors"
CounterFor(k, ok) == IF ok THEN SentName(k) ELSE ErrorsName(k)

\* Exceptions a send can raise; request/reply has its own except branch for
\* NatsTimeoutError ahead of the catch-all.
SendErrors(k) == IF k = "reqrep" THEN {"NatsTimeoutError", "Exception"} ELSE {"Exception"}

\* The counter an except branch increments.  run_reqrep_publisher catches
\* NatsTimeoutError ahead of Exception; both branches name "reqrep_errors".
CounterOnErrorTimeoutAsSent(k, e) ==
    IF e = "NatsTimeoutError" THEN "reqrep_sent" ELSE CounterFor(k, FALSE)
CounterOnError(k, e) ==
    IF e = "NatsTimeoutError" THEN "reqrep_errors" ELSE CounterFor(k, FALSE)

Kind(t) == t[1]

\* Loop head: leave when the event is set, else sequence += 1 and await the send.
EnterLoopSendsFirst(t) ==
    /\ sequence[t] < MaxSequence
    /\ pc' = [pc EXCEPT ![t] = "send"]
    /\ sequence' = [sequence EXCEPT ![t] = @ + 1]

EnterLoopNoIncrement(t) ==
    IF LoopContinues(stop_event)
    THEN /\ sequence[t] < MaxSequence
         /\ pc' = [pc EXCEPT ![t] = "send"]
         /\ UNCHANGED sequence
    ELSE /\ pc' = [pc EXCEPT ![t] = "done"]
         /\ UNCHANGED sequence

EnterLoop(t) ==
    IF LoopContinues(stop_event)
    THEN /\ sequence[t] < MaxSequence
         /\ pc' = [pc EXCEPT ![t] = "send"]
         /\ sequence' = [sequence EXCEPT ![t] = @ + 1]
    ELSE /\ pc' = [pc EXCEPT ![t] = "done"]
         /\ UNCHANGED sequence

\* First resumption of a created task.
TaskStart(t) ==
    /\ pc[t] = "created"
    /\ EnterLoop(t)
    /\ UNCHANGED <<config, now, rate_result, stop_event, stat_name, current, lock, waiters, stats, sends_ok,
                   sends_failed, main_vars, reporter_vars>>

\* `await stats.increment(name)` up to its first suspension: a free lock is
\* taken at once and `current = getattr(self, stat_name)` follows; a held
\* lock suspends the caller in acquire().
EnterIncrement(t, name) ==
    /\ stat_name' = [stat_name EXCEPT ![t] = name]
    /\ IF LockAvailable(lock) /\ waiters = <<>>
       THEN /\ lock' = t
            /\ UNCHANGED waiters
            /\ current' = [current EXCEPT ![t] = stats[name]]
            /\ pc' = [pc EXCEPT ![t] = "setattr"]
       ELSE /\ pc' = [pc EXCEPT ![t] = "acquire"]
            /\ waiters' = Append(waiters, t)
            /\ UNCHANGED <<lock, current>>

\* The awaited send returned: `await stats.increment("K_sent")`.
SendReturns(t) ==
    /\ pc[t] = "send"
    /\ EnterIncrement(t, CounterFor(Kind(t), TRUE))
    /\ sends_ok' = [sends_ok EXCEPT ![Kind(t)] = @ + 1]
    /\ UNCHANGED <<config, now, rate_result, stop_event, sequence, stats, sends_failed, main_vars,
                   reporter_vars>>

\* The awaited send raised: the except branch awaits stats.increment("K_errors").
SendRaises(t) ==
    /\ pc[t] = "send"
    /\ \E e \in SendErrors(Kind(t)) : EnterIncrement(t, CounterOnError(Kind(t), e))
    /\ sends_failed' = [sends_failed EXCEPT ![Kind(t)] = @ + 1]
    /\ UNCHANGED <<config, now, rate_result, stop_event, sequence, stats, sends_ok, main_vars,
                   reporter_vars>>

\* increment: a task suspended in `async with self._lock` gets the lock and
\* reads the counter.
Acquire(t) ==
    /\ pc[t] = "acquire"
    /\ LockAvailable(lock)
    /\ waiters # <<>>
    /\ Head(waiters) = t
    /\ waiters' = Tail(waiters)
    /\ lock' = t
    /\ current' = [current EXCEPT ![t] = stats[stat_name[t]]]
    /\ pc' = [pc EXCEPT ![t] = "setattr"]
    /\ UNCHANGED <<config, now, rate_result, stop_event, sequence, stat_name, stats, sends_ok,
                   sends_failed, main_vars, reporter_vars>>

\* Leaving `async with self._lock` releases the lock.
ReleasedNever(holder) == holder
Released(holder) == NoTask

\* increment: setattr(...), leave the `async with`, and back in the loop body
\* await asyncio.wait_for(stop_event.wait(), timeout=interval).
SetAttr(t) ==
    /\ pc[t] = "setattr"
    /\ stats' = Incremented(stats, stat_name[t], current[t])
    /\ lock' = Released(lock)
    /\ UNCHANGED waiters
    /\ current' = [current EXCEPT ![t] = 0]
    /\ stat_name' = [stat_name EXCEPT ![t] = "none"]
    /\ pc' = [pc EXCEPT ![t] = "sleep"]
    /\ UNCHANGED <<config, now, rate_result, stop_event, sequence, sends_ok, sends_failed, main_vars,
                   reporter_vars>>

\* wait_for returned because the event is set: break.
WaitFired(t) ==
    /\ pc[t] = "sleep"
    /\ stop_event
    /\ pc' = [pc EXCEPT ![t] = "done"]
    /\ UNCHANGED <<config, now, rate_result, stop_event, sequence, stat_name, current, lock, waiters, stats,
                   sends_ok, sends_failed, main_vars, reporter_vars>>

\* wait_for raised asyncio.TimeoutError: pass, and on to the loop head.  The
\* timeout can win against an event set in the same loop iteration, and always
\* does for a zero interval.
WaitTimeout(t) ==
    /\ pc[t] = "sleep"
    /\ EnterLoop(t)
    /\ UNCHANGED <<config, now, rate_result, stop_event, stat_name, current, lock, waiters, stats, sends_ok,
                   sends_failed, main_vars, reporter_vars>>

\* -------------------------------------------------------- stats_reporter
\* Increment calls in progress on counter n: issued and not yet written.
Pending(n) == Cardinality({t \in TaskIds : stat_name[t] = n})

\* The counters the "Stats:" line shows: the five sent attributes, read one
\* after the other with no await in between, and total_sent().
SnapshotWithPending(s) ==
    [sent |-> [k \in KindSet |-> s[SentName(k)] + Pending(SentName(k))],
     total |-> total_sent(s)]
Snapshot(s) ==
    [sent |-> [k \in KindSet |-> s[SentName(k)]],
     total |-> total_sent(s)]

\* Lines printed once a wait of the reporter has ended: `break` when the event
\* was set, the print in `except asyncio.TimeoutError` otherwise.
LinesAfterWaitAlwaysPrints(fired, n) == n + 1
LinesAfterWait(fired, n) == IF fired THEN n ELSE n + 1

ReporterStart ==
    /\ reporter_pc = "created"
    /\ reporter_pc' = IF LoopContinues(stop_event) THEN "wait" ELSE "done"
    /\ UNCHANGED <<config, now, rate_result, stop_event, report_lines, reports, main_vars, task_vars>>

ReporterFired ==
    /\ reporter_pc = "wait"
    /\ stop_event
    /\ report_lines' = LinesAfterWait(TRUE, report_lines)
    /\ reporter_pc' = "done"
    /\ UNCHANGED <<config, now, rate_result, stop_event, reports, main_vars, task_vars>>

ReporterTimeout ==
    /\ reporter_pc = "wait"
    /\ report_lines < MaxReports
    /\ report_lines' = LinesAfterWait(FALSE, report_lines)
    /\ reports' = Append(reports, Snapshot(stats))
    /\ reporter_pc' = IF LoopContinues(stop_event) THEN "wait" ELSE "done"
    /\ UNCHANGED <<config, now, rate_result, stop_event, main_vars, task_vars>>

\* ------------------------------------------------------------------ main
Publishers(k) == config.publishers[k]

total_publishers ==
    Publishers("normal") + Publishers("js") + Publishers("reqrep") + Publishers("kv")
      + Publishers("obj")

\* `if total_publishers == 0`
NoPublishersNever(total) == total < 0
NoPublishers(total) == total = 0

\* The tasks list.
tasks == {t \in TaskIds : pc[t] # "none"}
Returned(t) == pc[t] = "done"

\* main runs from one await to the next.  Each From* gives, for the code from
\* that section on: the await main stops at, the kinds whose publishers are
\* created on the way, and whether the reporter is.
\* `if config.stats_interval_sec > 0:` create the reporter; then gather.
ReporterEnabledAtZero(interval) == interval >= 0
ReporterEnabled(interval) == interval > 0

FromStats ==
    [pc |-> "gather", kinds |-> {}, reporter |-> ReporterEnabled(config.stats_interval_sec)]

\* `if config.obj_publishers > 0: obs = await ensure_object_store(...)`
FromObj ==
    IF Publishers("obj") > 0
    THEN [pc |-> "ensure_object_store", kinds |-> {}, reporter |-> FALSE]
    ELSE FromStats

\* `if config.kv_publishers > 0: kv = await ensure_kv_bucket(...)`
FromKv ==
    IF Publishers("kv") > 0
    THEN [pc |-> "ensure_kv_bucket", kinds |-> {}, reporter |-> FALSE]
    ELSE FromObj

\* The request-reply publishers need no provisioning.
FromReqRep == [FromKv EXCEPT !.kinds = @ \cup {"reqrep"}]

\* `if config.js_publishers > 0: await ensure_stream(...)`
FromJs ==
    IF Publishers("js") > 0
    THEN [pc |-> "ensure_stream", kinds |-> {}, reporter |-> FALSE]
    ELSE FromReqRep

\* for i in range(n): tasks.append(asyncio.create_task(run_K_publisher(..., i, ...)))
\* for the kinds in `first` and those created on the way to the next await.
RunTo(first, run) ==
    /\ pc' = [t \in TaskIds |->
                IF Kind(t) \in (first \cup run.kinds) /\ t[2] < Publishers(Kind(t))
                THEN "created" ELSE pc[t]]
    /\ reporter_pc' = IF run.reporter THEN "created" ELSE reporter_pc
    /\ main_pc' = run.pc

\* Validation, then `await nats.connect(...)`.
Validate ==
    /\ main_pc = "entry"
    /\ main_pc' = IF NoPublishers(total_publishers) THEN "exit_config" ELSE "connect"
    /\ UNCHANGED <<config, now, rate_result, stop_event, handlers, stats_created, summaries, provisioned,
                   task_vars, reporter_vars>>

\* connect raised: sys.exit(1).
ConnectFails ==
    /\ main_pc = "connect"
    /\ main_pc' = "exit_connect"
    /\ UNCHANGED <<config, now, rate_result, stop_event, handlers, stats_created, summaries, provisioned,
                   task_vars, reporter_vars>>

\* Connected: stop event, signal handlers, Stats(), the normal publishers.
ConnectReturns ==
    /\ main_pc = "connect"
    /\ handlers' = TRUE
    /\ stats_created' = TRUE
    /\ stats' = NewStats(now)
    /\ RunTo({"normal"}, FromJs)
    /\ UNCHANGED <<config, now, rate_result, stop_event, summaries, provisioned, sequence, stat_name,
                   current, lock, waiters, sends_ok, sends_failed, report_lines, reports>>

\* ensure_stream returns None whatever add_stream did (created, BadRequestError
\* for an existing stream, or any other exception): the js publishers follow.
EnsureStreamOutcomes == {"created", "exists", "failed"}

EnsureStream ==
    /\ main_pc = "ensure_stream"
    /\ \E o \in EnsureStreamOutcomes : provisioned' = [provisioned EXCEPT !["js"] = o]
    /\ RunTo({"js"}, FromReqRep)
    /\ UNCHANGED <<config, now, rate_result, stop_event, handlers, stats_created, summaries, sequence,
                   stat_name, current, lock, waiters, stats, sends_ok, sends_failed, report_lines, reports>>

\* The code after the section of kind k.
After(k) == IF k = "kv" THEN FromObj ELSE FromStats

EnsurePc(k) == IF k = "kv" THEN "ensure_kv_bucket" ELSE "ensure_object_store"
LookupPc(k) == IF k = "kv" THEN "key_value" ELSE "object_store"

\* `if kv:` / `if obs:` -- publishers are created only for a handle.
HandleIsNone(h) == h = "None"
HandleOk(h) == h # "None"

LaunchIfHandle(k, h) == RunTo(IF HandleOk(h) THEN {k} ELSE {}, After(k))

\* ensure_kv_bucket / ensure_object_store: the create call returned a handle.
EnsureBucketCreated(k) ==
    /\ main_pc = EnsurePc(k)
    /\ provisioned' = [provisioned EXCEPT ![k] = "created"]
    /\ LaunchIfHandle(k, "handle")
    /\ UNCHANGED <<config, now, rate_result, stop_event, handlers, stats_created, summaries, sequence,
                   stat_name, current, lock, waiters, stats, sends_ok, sends_failed, report_lines, reports>>

\* The create call raised BadRequestError: `return await js.key_value(bucket)`.
EnsureBucketBadRequest(k) ==
    /\ main_pc = EnsurePc(k)
    /\ main_pc' = LookupPc(k)
    /\ UNCHANGED <<config, now, rate_result, stop_event, handlers, stats_created, summaries, provisioned,
                   task_vars, reporter_vars>>

\* The create call raised anything else: warning, return None.
EnsureBucketFails(k) ==
    /\ main_pc = EnsurePc(k)
    /\ provisioned' = [provisioned EXCEPT ![k] = "failed"]
    /\ LaunchIfHandle(k, "None")
    /\ UNCHANGED <<config, now, rate_result, stop_event, handlers, stats_created, summaries, sequence,
                   stat_name, current, lock, waiters, stats, sends_ok, sends_failed, report_lines, reports>>

\* The lookup inside the except branch returned the existing bucket.
LookupReturns(k) ==
    /\ main_pc = LookupPc(k)
    /\ provisioned' = [provisioned EXCEPT ![k] = "exists"]
    /\ LaunchIfHandle(k, "handle")
    /\ UNCHANGED <<config, now, rate_result, stop_event, handlers, stats_created, summaries, sequence,
                   stat_name, current, lock, waiters, stats, sends_ok, sends_failed, report_lines, reports>>

\* The lookup raised.  It runs inside an except branch, so no sibling except
\* catches it: the exception leaves ensure_*, leaves main, and asyncio.run
\* cancels every task still pending before it re-raises; a task cancelled in
\* acquire() leaves the lock's queue.
Cancelled(p) == IF p \in {"none", "done"} THEN p ELSE "cancelled"

LookupRaises(k) ==
    /\ main_pc = LookupPc(k)
    /\ provisioned' = [provisioned EXCEPT ![k] = "failed"]
    /\ main_pc' = "aborted"
    /\ pc' = [t \in TaskIds |-> Cancelled(pc[t])]
    /\ reporter_pc' = Cancelled(reporter_pc)
    /\ waiters' = <<>>
    /\ UNCHANGED <<config, now, rate_result, stop_event, handlers, stats_created, summaries, sequence,
                   stat_name, current, lock, stats, sends_ok, sends_failed, report_lines, reports>>

\* `await asyncio.gather(*tasks)` returns when every task in the list has.
GatherAny(ts, rep) == (\E t \in ts : Returned(t)) \/ rep = "done"
GatherDone(ts, rep) == (\A t \in ts : Returned(t)) /\ rep \in {"none", "done"}

Gather ==
    /\ main_pc = "gather"
    /\ GatherDone(tasks, reporter_pc)
    /\ main_pc' = "print_final_stats"
    /\ UNCHANGED <<config, now, rate_result, stop_event, handlers, stats_created, summaries, provisioned,
                   task_vars, reporter_vars>>

\* What print_final_stats prints.
FinalStats(s) ==
    [sent |-> [k \in KindSet |-> s[SentName(k)]],
     errors |-> [k \in KindSet |-> s[ErrorsName(k)]],
     total |-> total_sent(s),
     total_errors |-> total_errors(s)]

PrintFinalStats ==
    /\ main_pc = "print_final_stats"
    /\ summaries' = Append(summaries, FinalStats(stats))
    /\ main_pc' = "close"
    /\ UNCHANGED <<config, now, rate_result, stop_event, handlers, stats_created, provisioned, task_vars,
                   reporter_vars>>

Close ==
    /\ main_pc = "close"
    /\ main_pc' = "returned"
    /\ UNCHANGED <<config, now, rate_result, stop_event, handlers, stats_created, summaries, provisioned,
                   task_vars, reporter_vars>>

\* SIGINT / SIGTERM while the loop runs main: stop_event.set().
MainRunning == main_pc \notin {"entry", "connect", "exit_config", "exit_connect",
                               "aborted", "returned"}

\* asyncio.Event.set(): the flag becomes true whatever it was.
EventToggle(is_set) == ~is_set
EventSet(is_set) == TRUE

signal_handler ==
    /\ handlers
    /\ MainRunning
    /\ stop_event' = EventSet(stop_event)
    /\ UNCHANGED <<config, now, rate_result, main_vars, task_vars, reporter_vars>>

\* --------------------------------------------------------- specification
Init ==
    /\ config \in Configs
    /\ main_pc = "entry"
    /\ stop_event = FALSE
    /\ handlers = FALSE
    /\ stats_created = FALSE
    /\ stats = NewStats(0)
    /\ lock = NoTask
    /\ waiters = <<>>
    /\ pc = [t \in TaskIds |-> "none"]
    /\ sequence = [t \in TaskIds |-> 0]
    /\ stat_name = [t \in TaskIds |-> "none"]
    /\ current = [t \in TaskIds |-> 0]
    /\ reporter_pc = "none"
    /\ report_lines = 0
    /\ reports = <<>>
    /\ summaries = <<>>
    /\ sends_ok = [k \in KindSet |-> 0]
    /\ sends_failed = [k \in KindSet |-> 0]
    /\ provisioned = [k \in KindSet |-> "none"]
    /\ now = 0
    /\ rate_result = <<>>

TaskStep(t) ==
    \/ TaskStart(t)
    \/ SendReturns(t)
    \/ SendRaises(t)
    \/ Acquire(t)
    \/ SetAttr(t)
    \/ WaitFired(t)
    \/ WaitTimeout(t)

ReporterStep ==
    \/ ReporterStart
    \/ ReporterFired
    \/ ReporterTimeout

BucketStep(k) ==
    \/ EnsureBucketCreated(k)
    \/ EnsureBucketBadRequest(k)
    \/ EnsureBucketFails(k)
    \/ LookupReturns(k)
    \/ LookupRaises(k)

MainStep ==
    \/ Validate
    \/ ConnectFails
    \/ ConnectReturns
    \/ EnsureStream
    \/ BucketStep("kv")
    \/ BucketStep("obj")
    \/ Gather
    \/ PrintFinalStats
    \/ Close

Next ==
    \/ MainStep
    \/ \E t \in TaskIds : TaskStep(t)
    \/ ReporterStep
    \/ signal_handler

Spec == Init /\ [][Next]_vars

\* Fair scheduling: the event loop resumes every ready coroutine, every awaited
\* broker call eventually returns or raises, every interval eventually expires.
\* Signals are the environment's choice and carry no fairness.
Fairness ==
    /\ WF_vars(MainStep)
    /\ \A t \in TaskIds : WF_vars(TaskStep(t))
    /\ WF_vars(ReporterStep)

FairSpec == Spec /\ Fairness

\* ------------------------------------------------- Stats.rate() on its own
\* A Stats object with any counters and any start_time, a wall clock that the
\* system may set to any reading (time.time() is not monotonic), and calls
\* of rate().
RateStats ==
    { [n \in StatFields |->
          IF n = "start_time" THEN t
          ELSE IF \E k \in KindSet : n = SentName(k)
               THEN c[CHOOSE k \in KindSet : n = SentName(k)]
               ELSE 0] :
        c \in [KindSet -> 0..MaxSequence], t \in Times }

\* rate() is called on the Stats object alone; main is not running.
RateConfig == [publishers |-> [k \in KindSet |-> 0], stats_interval_sec |-> 0]

RateInit ==
    /\ config = RateConfig
    /\ main_pc = "entry"
    /\ stop_event = FALSE
    /\ handlers = FALSE
    /\ stats_created = TRUE
    /\ stats \in RateStats
    /\ lock = NoTask
    /\ waiters = <<>>
    /\ pc = [t \in TaskIds |-> "none"]
    /\ sequence = [t \in TaskIds |-> 0]
    /\ stat_name = [t \in TaskIds |-> "none"]
    /\ current = [t \in TaskIds |-> 0]
    /\ reporter_pc = "none"
    /\ report_lines = 0
    /\ reports = <<>>
    /\ summaries = <<>>
    /\ sends_ok = [k \in KindSet |-> 0]
    /\ sends_failed = [k \in KindSet |-> 0]
    /\ provisioned = [k \in KindSet |-> "none"]
    /\ now \in Times
    /\ rate_result = <<>>

\* The wall clock moves, forward or (when it is set back) backward.
ClockMoves ==
    /\ \E time \in Times \ {now} : now' = time
    /\ rate_result' = <<>>
    /\ UNCHANGED <<config, main_vars, task_vars, reporter_vars, stop_event>>

\* A call of stats.rate().
CallRate ==
    /\ rate_result = <<>>
    /\ rate_result' = <<[elapsed |-> now - stats["start_time"], value |-> rate(stats, now)]>>
    /\ UNCHANGED <<config, now, main_vars, task_vars, reporter_vars, stop_event>>

RateNext == ClockMoves \/ CallRate

RateSpec == RateInit /\ [][RateNext]_vars

\* ------------------------------------------------------------ properties
\* Increment calls issued on counter n since Stats() was built.
Issued(n) ==
    LET k == CHOOSE x \in KindSet : n \in {SentName(x), ErrorsName(x)}
    IN  IF n = SentName(k) THEN sends_ok[k] ELSE sends_failed[k]

\* C1: no lost updates.  In every reachable state each counter equals the
\* number of increments issued on it minus those still in progress; so once
\* every call has completed it equals the number of calls exactly, whatever
\* the interleaving of the calls was.
C1_NoLostUpdates == \A n \in StatNames : stats[n] + Pending(n) = Issued(n)

\* C1 witness: one task is between getattr and setattr on a counter that has
\* already been incremented while another task waits for the lock to
\* increment the same counter.
C1_Witness ==
    \E t1 \in TaskIds, t2 \in TaskIds :
        /\ t1 # t2
        /\ pc[t1] = "setattr"
        /\ pc[t2] = "acquire"
        /\ stat_name[t1] = stat_name[t2]
        /\ stats[stat_name[t1]] >= 1

\* C2: shutdown preempts the interval sleep.  A task that is in its interval
\* wait while the stop event is set can only stay there or end: the step that
\* takes it out of the wait returns from the loop (or is the runtime cancelling
\* it when main is aborted), starts no send and leaves its sequence number
\* alone; and a task that has returned never runs again.
C2_ShutdownPreemptsSleep ==
    [][\A t \in TaskIds :
         /\ (pc[t] = "sleep" /\ stop_event) =>
               /\ pc'[t] \in {"sleep", "done", "cancelled"}
               /\ (pc'[t] = "cancelled" => main_pc' = "aborted")
               /\ sequence'[t] = sequence[t]
               /\ stat_name'[t] = "none"
         /\ pc[t] = "done" =>
               /\ pc'[t] = "done"
               /\ sequence'[t] = sequence[t]
               /\ stat_name'[t] = "none"]_vars

\* C2 witness: a task sits in its interval wait with the event set and with
\* sends left that a timeout would otherwise start.
C2_Witness ==
    \E t \in TaskIds : pc[t] = "sleep" /\ stop_event /\ sequence[t] < MaxSequence

\* Attempts of task t that ran to the end of their increment.
MidIteration(t) == pc[t] \in {"send", "acquire", "setattr"}
Completed(t) == IF MidIteration(t) THEN sequence[t] - 1 ELSE sequence[t]

RECURSIVE SumCompleted(_)
SumCompleted(S) ==
    IF S = {} THEN 0
    ELSE LET t == CHOOSE x \in S : TRUE IN Completed(t) + SumCompleted(S \ {t})

TasksOf(k) == {t \in TaskIds : Kind(t) = k}

C4_ZeroPublishersIsConfigError ==
    total_publishers = 0 =>
        /\ main_pc \in {"entry", "exit_config"}
        /\ ~handlers
        /\ ~stats_created
        /\ tasks = {}
        /\ reporter_pc = "none"
        /\ stats = NewStats(now)

\* C4 witness: main has exited with the configuration error.
C4_Witness == total_publishers = 0 /\ main_pc = "exit_config"

ProvisionedKinds == {"js", "kv", "obj"}
Launched(k) == TasksOf(k) \cap tasks

\* C5: for each kind with one-time provisioning (durable-stream, key-value,
\* blob), when that kind's provisioning call has failed no publisher task of
\* the kind is launched.
C5_FailedProvisioningLaunchesNone ==
    \A k \in ProvisionedKinds : provisioned[k] = "failed" => Launched(k) = {}

WaitCompleted == main_pc \in {"print_final_stats", "close", "returned"}

\* C6: a provisioning failure of one kind never prevents the other kinds from
\* running.  main never aborts with an error, and once main is past the
\* launches, every kind with N > 0 configured publishers whose own
\* provisioning did not fail has exactly N tasks launched.
C6_ProvisioningFailureIsolated ==
    /\ main_pc # "aborted"
    /\ (main_pc = "gather" \/ WaitCompleted) =>
          \A k \in KindSet :
              (Publishers(k) > 0 /\ provisioned[k] # "failed") =>
                  Cardinality(Launched(k)) = Publishers(k)

\* C7: the wait completes only when every launched unit has returned.  In
\* every state where gather has returned (the summary is being or has been
\* printed, main is closing or has returned) every launched publisher task
\* and the reporter, if launched, has returned.
C7_NoTaskOutlivesTheWait ==
    (WaitCompleted \/ Len(summaries) > 0) =>
        /\ \A t \in tasks : Returned(t)
        /\ reporter_pc \in {"none", "done"}

\* C7 witness: main has returned after waiting for two publishers and the
\* reporter, all of which did some work.
C7_Witness ==
    /\ main_pc = "returned"
    /\ Cardinality(tasks) = 2
    /\ \A t \in tasks : sequence[t] >= 1
    /\ reporter_pc = "done"

MainEnded == main_pc \in {"returned", "aborted"}

\* C8: every run that got connected and in which the stop event was set ends
\* with the final summary printed exactly once: never twice, and not zero
\* times once main has ended.
C8_ExactlyOneSummary ==
    /\ Len(summaries) <= 1
    /\ (stop_event /\ MainEnded) => Len(summaries) = 1

\* What a summary says against what happened.
SummaryIsTrue(s) ==
    /\ s.total = s.sent["normal"] + s.sent["js"] + s.sent["reqrep"] + s.sent["kv"]
                   + s.sent["obj"]
    /\ \A k \in KindSet : s.sent[k] = sends_ok[k] /\ s.errors[k] = sends_failed[k]

AllTerminated == tasks # {} /\ \A t \in tasks : pc[t] \in {"done", "cancelled"}

\* C9: the final summary reflects the true aggregated counters.  Every summary
\* printed reports a total equal to the sum of the five sent values it
\* reports, per-kind sent and error values equal to the numbers of send
\* operations of that kind that returned and that raised during the whole
\* run; and no step changes a counter once every launched task has terminated.
C9_SummaryReflectsCounters ==
    /\ [](\A i \in 1..Len(summaries) : SummaryIsTrue(summaries[i]))
    /\ [][AllTerminated => stats' = stats]_vars

\* C9 witness: a summary has been printed that reports sends of two kinds,
\* one of them the object store, and at least one error.
C9_Witness ==
    /\ Len(summaries) = 1
    /\ summaries[1].sent["obj"] >= 1
    /\ \E k \in KindSet \ {"obj"} : summaries[1].sent[k] >= 1
    /\ summaries[1].total_errors >= 1

\* C10: graceful shutdown is live.  Under fair scheduling, with every awaited
\* broker call eventually returning or raising, once the stop event is set
\* every launched publisher task and the reporter eventually return and
\* main's wait on them eventually completes.
C10_GracefulShutdownLive ==
    stop_event ~>
        /\ WaitCompleted
        /\ \A t \in tasks : Returned(t)
        /\ reporter_pc \in {"none", "done"}

\* ---------------------------------------------------- properties of rate()
SentSum(s) ==
    s[SentName(Kinds[1])] + s[SentName(Kinds[2])] + s[SentName(Kinds[3])]
      + s[SentName(Kinds[4])] + s[SentName(Kinds[5])]

IsZero(q) == q.num = 0 /\ q.den # 0

\* q is the quotient n / d, d # 0.
IsQuotient(q, n, d) == q.den # 0 /\ q.num * d = n * q.den

Elapsed == now - stats["start_time"]

\* C14 as stated: rate() returns 0 when the elapsed time is 0, never divides
\* by zero, and for every other elapsed time returns the sum of the five sent
\* counters divided by the elapsed seconds.
C14_RateAsStated ==
    \A i \in 1..Len(rate_result) :
        /\ rate_result[i].value.den # 0
        /\ Elapsed = 0 => IsZero(rate_result[i].value)
        /\ Elapsed # 0 => IsQuotient(rate_result[i].value, SentSum(stats), Elapsed)

\* C14 amended: rate() returns 0 when the elapsed time is 0 or negative (the
\* wall clock was set back), never divides by zero, and for a positive
\* elapsed time returns the sum of the five sent counters divided by the
\* elapsed seconds.
C14_RateAmended ==
    \A i \in 1..Len(rate_result) :
        /\ rate_result[i].value.den # 0
        /\ Elapsed <= 0 => IsZero(rate_result[i].value)
        /\ Elapsed > 0 => IsQuotient(rate_result[i].value, SentSum(stats), Elapsed)

\* C14 witness: rate() was called with sends counted and time elapsed, and
\* returned a non-zero rate.
C14_Witness ==
    /\ Len(rate_result) = 1
    /\ Elapsed > 0
    /\ SentSum(stats) >= 2
    /\ rate_result[1].value.num > 0

\* ------------------------------------- properties of the running program
\* C11: the stop event is never reset once set, and a signal arriving when
\* it is already set changes nothing: not the event, no task's state, no
\* counter.
C11_SignalIdempotentAndPermanent ==
    [][ /\ stop_event => stop_event'
        /\ (stop_event /\ signal_handler) => UNCHANGED vars ]_vars

\* C11 witness: the event is set, the handlers are still installed, main is
\* running and a publisher is asleep, so a second signal can arrive.
C11_Witness ==
    /\ stop_event
    /\ ENABLED signal_handler
    /\ \E t \in TaskIds : pc[t] = "sleep" /\ sequence[t] >= 1

\* C12: in every step each of the ten counters stays the same or grows by
\* exactly 1.
C12_CountersMonotone ==
    [][\A n \in StatNames : stats'[n] \in {stats[n], stats[n] + 1}]_vars

\* C12 witness: a counter has been incremented twice.
C12_Witness == \E n \in StatNames : stats[n] >= 2

ReporterEnded == reporter_pc \in {"done", "cancelled"}

\* C13: a wait of the reporter that times out while the event is unset
\* prints one line; a wait that ends because the event is set prints none and
\* ends the reporter; an ended reporter prints nothing more.
C13_ReporterLines ==
    [][ /\ (ReporterTimeout /\ ~stop_event) => report_lines' = report_lines + 1
        /\ ReporterFired => (report_lines' = report_lines /\ reporter_pc' = "done")
        /\ ReporterEnded => (report_lines' = report_lines /\ reporter_pc' = reporter_pc)
      ]_vars

\* C13 witness: the reporter printed a line and then ended on the set event.
C13_Witness == reporter_pc = "done" /\ report_lines >= 1 /\ stop_event

RECURSIVE SumSequence(_)
SumSequence(S) ==
    IF S = {} THEN 0
    ELSE LET t == CHOOSE x \in S : TRUE IN sequence[t] + SumSequence(S \ {t})

\* Kinds none of whose tasks is inside an iteration: none is between the start
\* of a send and the end of its increment, and none was torn down by the
\* runtime.
Quiescent(k) == \A t \in TasksOf(k) : ~MidIteration(t) /\ pc[t] # "cancelled"

KindTotal(s, k) == s[SentName(k)] + s[ErrorsName(k)]

\* C15: every send attempt is accounted once and to its own kind.  A step
\* changes K_sent + K_errors by 0 or by 1, and by 1 only when a task of kind K
\* finishes its increment; and whenever no task of kind K is mid-iteration,
\* K_sent is the number of sends of kind K that returned, K_errors the number
\* that raised (a request/reply timeout like any other exception), and their
\* sum is the sum of the sequence numbers of kind K's tasks.
C15_AttemptsAccountedOnce ==
    /\ [](\A k \in KindSet :
            Quiescent(k) =>
                /\ stats[SentName(k)] = sends_ok[k]
                /\ stats[ErrorsName(k)] = sends_failed[k]
                /\ KindTotal(stats, k) = SumSequence(TasksOf(k)))
    /\ [][\A k \in KindSet :
            /\ KindTotal(stats', k) - KindTotal(stats, k) \in {0, 1}
            /\ KindTotal(stats', k) # KindTotal(stats, k) =>
                  \E t \in TasksOf(k) : pc[t] = "setattr" /\ pc'[t] = "sleep"]_vars

\* C15 witness: request/reply sends have both returned and raised, and no
\* request/reply task is mid-iteration.
C15_Witness ==
    /\ Quiescent("reqrep")
    /\ stats["reqrep_sent"] >= 1
    /\ stats["reqrep_errors"] >= 1

\* C16: if a launched publisher task or the reporter has ended, the stop
\* event is set.
C16_UnitsEndOnlyAfterSignal ==
    ((\E t \in TaskIds : pc[t] \in {"done", "cancelled"}) \/ ReporterEnded) => stop_event

\* C17: provisioning that found its resource, newly created or already
\* there, launches every configured instance of the kind.
C17_ProvisioningIdempotent ==
    \A k \in ProvisionedKinds :
        provisioned[k] \in {"created", "exists"} =>
            Cardinality(Launched(k)) = Publishers(k)

\* C17 witness: the key-value bucket already existed, the stream was created,
\* and publishers of both kinds were launched and have sent.
C17_Witness ==
    /\ provisioned["kv"] = "exists"
    /\ provisioned["js"] = "created"
    /\ stats["kv_sent"] >= 1
    /\ stats["js_sent"] >= 1

\* C18: the reporter is launched, once, exactly when the stats interval is
\* > 0: it exists only for a positive interval, it exists for every positive
\* interval once main waits, and it is created by the step that takes main to
\* the wait and never again.  With or without it main prints the summary
\* only after every publisher task has returned, and prints it before it
\* closes.
C18_ReporterIffPositiveInterval ==
    /\ [](/\ reporter_pc # "none" => config.stats_interval_sec > 0
          /\ (main_pc = "gather" \/ WaitCompleted) =>
                (reporter_pc # "none" <=> config.stats_interval_sec > 0)
          /\ Len(summaries) > 0 => \A t \in tasks : pc[t] = "done"
          /\ main_pc \in {"close", "returned"} => Len(summaries) = 1)
    /\ [][(reporter_pc' = "created" /\ reporter_pc # "created") =>
              (reporter_pc = "none" /\ main_pc # "gather" /\ main_pc' = "gather")]_vars

\* C18 witness: with a zero interval main has returned with its summary
\* after publishers ran, and no reporter was ever there.
C18_Witness ==
    /\ config.stats_interval_sec <= 0
    /\ main_pc = "returned"
    /\ Len(summaries) = 1
    /\ reporter_pc = "none"
    /\ \E t \in tasks : sequence[t] >= 1

AtSend(k) == Cardinality({t \in TasksOf(k) : pc[t] = "send"})

\* C19: a task's sequence number is 0 until the task first runs, grows by
\* exactly 1 in the step that starts a send attempt and in no other step,
\* changes only in a step of the task itself, and never decreases; so the
\* sequence numbers of a kind add up to the attempts of that kind, finished
\* (returned or raised) and under way.
C19_SequenceCountsAttempts ==
    /\ [](/\ \A t \in TaskIds : pc[t] \in {"none", "created"} => sequence[t] = 0
          /\ \A k \in KindSet :
                (\A t \in TasksOf(k) : pc[t] # "cancelled") =>
                    SumSequence(TasksOf(k)) = sends_ok[k] + sends_failed[k] + AtSend(k))
    /\ [][\A t \in TaskIds :
            /\ sequence'[t] \in {sequence[t], sequence[t] + 1}
            /\ sequence'[t] = sequence[t] + 1 <=> (pc[t] # "send" /\ pc'[t] = "send")
            /\ sequence'[t] # sequence[t] => TaskStep(t)]_vars

\* C19 witness: a task has made two attempts, one returned and one raised.
C19_Witness ==
    \E t \in TaskIds :
        /\ sequence[t] = 2
        /\ pc[t] = "sleep"
        /\ Cardinality(Launched(Kind(t))) = 1
        /\ sends_ok[Kind(t)] = 1
        /\ sends_failed[Kind(t)] = 1

OwnCounters(t) == {SentName(Kind(t)), ErrorsName(Kind(t))}

\* C20: a step of a publisher task of kind K leaves the start timestamp and
\* every counter other than K_sent and K_errors unchanged; steps of the
\* reporter, the signal handler and print_final_stats leave the whole Stats
\* object unchanged.
C20_CountersChangeOnlyByIncrement ==
    [][ /\ \A t \in TaskIds :
              TaskStep(t) => \A n \in StatFields \ OwnCounters(t) : stats'[n] = stats[n]
        /\ (ReporterStep \/ signal_handler \/ PrintFinalStats) => stats' = stats ]_vars

\* C20 witness: publishers of two kinds have incremented their counters, the
\* reporter has printed, the signal was handled and the summary is printed.
C20_Witness ==
    /\ \E k1 \in KindSet, k2 \in KindSet :
          k1 # k2 /\ KindTotal(stats, k1) >= 1 /\ KindTotal(stats, k2) >= 1
    /\ report_lines >= 1
    /\ stop_event
    /\ Len(summaries) = 1

\* The values of the sent counters a printed line shows, and of all ten for
\* the final summary.
ShownAtMost(line, s) == \A k \in KindSet : line.sent[k] <= s[SentName(k)]

\* C21: no snapshot tears or invents a value.  A periodic line shows each
\* sent counter exactly as it stands in the step that prints it; so every
\* value printed, by a periodic line or by the final summary, is at most the
\* counter's present value (a value the counter went through, counters moving
\* up by ones from 0) and at most the increments issued on it; and the values
\* of a counter in successive lines, the final summary last, never decrease.
C21_SnapshotsAreHeldValues ==
    /\ [](/\ \A i \in 1..Len(reports) :
                /\ ShownAtMost(reports[i], stats)
                /\ \A k \in KindSet : reports[i].sent[k] <= sends_ok[k]
                /\ \A j \in i..Len(reports) : \A k \in KindSet :
                      reports[i].sent[k] <= reports[j].sent[k]
                /\ \A j \in 1..Len(summaries) : \A k \in KindSet :
                      reports[i].sent[k] <= summaries[j].sent[k]
          /\ \A j \in 1..Len(summaries) : \A k \in KindSet :
                /\ summaries[j].sent[k] <= stats[SentName(k)]
                /\ summaries[j].sent[k] <= sends_ok[k]
                /\ summaries[j].errors[k] <= stats[ErrorsName(k)]
                /\ summaries[j].errors[k] <= sends_failed[k])
    /\ [][Len(reports') > Len(reports) =>
            /\ Len(reports') = Len(reports) + 1
            /\ \A k \in KindSet : reports'[Len(reports')].sent[k] = stats[SentName(k)]
            /\ reports'[Len(reports')].total = SentSum(stats)
            /\ \A i \in 1..Len(reports) : reports'[i] = reports[i]]_vars

\* C21 witness: two periodic lines were printed with a counter moving on
\* between them, and the final summary was printed after both.
C21_Witness ==
    /\ Len(reports) = 2
    /\ Len(summaries) = 1
    /\ \E k \in KindSet :
          /\ reports[1].sent[k] >= 1
          /\ reports[2].sent[k] > reports[1].sent[k]
          /\ summaries[1].sent[k] = reports[2].sent[k]

\* C22: no send is started once the stop event is set.  A step that starts a
\* send is taken with the event unset.  With the event set: no sequence
\* number moves; a task that is inside an attempt goes on to the attempt's one
\* increment and from there to its wait; a task that is created or in its
\* wait can only return, with the attempts it had (none for a task that has
\* not run yet), and starts no increment; and only the runtime tearing main
\* down ends a task otherwise.
C22_NoSendAfterFire ==
    [][\A t \in TaskIds :
         /\ (pc[t] # "send" /\ pc'[t] = "send") => (~stop_event /\ ~stop_event')
         /\ stop_event =>
               /\ sequence'[t] = sequence[t]
               /\ pc[t] \in {"send", "acquire"} =>
                     pc'[t] \in {pc[t], "acquire", "setattr", "cancelled"}
               /\ pc[t] = "setattr" => pc'[t] \in {"setattr", "sleep", "cancelled"}
               /\ pc[t] \in {"created", "sleep"} =>
                     /\ pc'[t] \in {pc[t], "done", "cancelled"}
                     /\ stat_name'[t] = "none"
               /\ (pc[t] # "cancelled" /\ pc'[t] = "cancelled") => main_pc' = "aborted"
      ]_vars

\* C22 witness: with the event set, one task has returned without a single
\* attempt while another is finishing the attempt it was in.
C22_Witness ==
    /\ stop_event
    /\ \E t1 \in TaskIds, t2 \in TaskIds :
          /\ pc[t1] = "done"
          /\ sequence[t1] = 0
          /\ pc[t2] = "setattr"
          /\ sequence[t2] < MaxSequence

InIncrement == {t \in TaskIds : pc[t] = "setattr"}

\* C23: the counter lock excludes without deadlock.  At most one task is
\* between the getattr and the setattr of increment, and it is the lock's
\* holder; a task outside increment does not hold the lock, and the step
\* that ends an increment frees it; the lock's queue holds exactly the tasks
\* suspended in acquire(); and, under fair scheduling, no task stays there:
\* again and again no task is waiting for the lock, so every task that waited
\* has left acquire(), which it does only with the lock in hand (or torn down
\* by the runtime), whether or not the stop event is set.
C23_LockExcludesWithoutDeadlock ==
    /\ [](/\ Cardinality(InIncrement) <= 1
          /\ \A t \in InIncrement : lock = t
          /\ \A t \in TaskIds :
                pc[t] \in {"none", "created", "send", "acquire", "sleep", "done"} => lock # t
          /\ \A t \in TaskIds :
                pc[t] = "acquire" <=> \E i \in 1..Len(waiters) : waiters[i] = t)
    /\ [][\A t \in TaskIds : (pc[t] = "setattr" /\ pc'[t] = "sleep") => lock' = NoTask]_vars
    /\ []<>(\A t \in TaskIds : pc[t] # "acquire")

\* C23 witness: with the stop event set, a task waits for the lock another
\* task holds.
C23_Witness ==
    /\ stop_event
    /\ \E t1 \in TaskIds, t2 \in TaskIds :
          /\ pc[t1] = "acquire"
          /\ pc[t2] = "setattr"
          /\ lock = t2

====
